---- MODULE Spec2Model ----
(***************************************************************************)
(* A model of shaku's ParameterMap (src/shaku/src/parameter/               *)
(* parameter_map.rs) and ContainerBuilder (src/shaku/src/container/        *)
(* container_builder.rs).                                                  *)
(*                                                                         *)
(* An Option<T> is a sequence of length at most one: None is <<>> and      *)
(* Some(x) is <<x>>.  A value of type V is the record [ty |-> V, v |-> n]: *)
(* its dynamic type and its payload.                                       *)
(***************************************************************************)
EXTENDS Integers, Sequences, FiniteSets, TLC

\* ------------------------------------------------------------------ bounds
NumNames == 1
MaxVal == 2
MaxRegs == 2
MaxParams == 2

\* Names and types of the parameters: the fields of the components of
\* compile_simple_component.rs.  Callers draw names from the first NumNames.
AllNames == <<"val", "var2", "var1", "var3">>
Names == {AllNames[i] : i \in 1..NumNames}
FieldNames == {AllNames[i] : i \in 1..Len(AllNames)}
ValTypes == {"String", "usize"}
ReqTypes == ValTypes \cup {"Parameter"}
KeyTypes == ReqTypes \cup {"Box<String>"}
Values == [ty : ValTypes, v : 1..MaxVal]

None == <<>>
Some(x) == <<x>>

\* ------------------------------------------------------- parameter::Key
KeyString(s) == <<"String", s>>
KeyId(t) == <<"Id", t>>
Keys == {KeyString(n) : n \in FieldNames} \cup {KeyId(t) : t \in KeyTypes}

\* ------------------------------------------------- parameter::Parameter
\* TypeId::of::<V>() of a value
TypeIdOf(value) == value.ty

ParameterNew(name, value) ==
    [name |-> name, type_id |-> TypeIdOf(value), value |-> value]

\* Parameter::get_value::<V>: a checked downcast of the boxed value
get_value(p, V) == IF TypeIdOf(p.value) = V THEN Some(p.value) ELSE None

\* Option::and_then(Parameter::get_value)
AndThenGetValue(opt, V) == IF opt = None THEN None ELSE get_value(opt[1], V)

\* ------------------------------------------------ parameter::ParameterMap
\* ParameterMap::new
ParameterMapNew == [k \in Keys |-> None]

\* HashMap::insert: the new map and the evicted entry
HashInsert(m, k, p) == [map |-> [m EXCEPT ![k] = Some(p)], old |-> m[k]]

\* HashMap::remove: the new map and the removed entry
HashRemove(m, k) == [map |-> [m EXCEPT ![k] = None], old |-> m[k]]

\* the insert forgets the evicted entry
insert_with_name_none(m, key, value) ==
    [map |-> HashInsert(m, KeyString(key), ParameterNew(key, value)).map,
     ret |-> None]

\* entry(key).or_insert(..): an entry already present is kept
insert_with_name_keep(m, key, value) ==
    IF m[KeyString(key)] = None
    THEN [map |-> HashInsert(m, KeyString(key), ParameterNew(key, value)).map,
          ret |-> None]
    ELSE [map |-> m, ret |-> None]

insert_with_name(m, key, value) ==
    LET r == HashInsert(m, KeyString(key), ParameterNew(key, value))
    IN  [map |-> r.map, ret |-> AndThenGetValue(r.old, TypeIdOf(value))]

insert_with_type(m, value) ==
    LET r == HashInsert(m, KeyId(TypeIdOf(value)),
                        ParameterNew("(dummy name)", value))
    IN  [map |-> r.map, ret |-> AndThenGetValue(r.old, TypeIdOf(value))]

\* no comparison of type_id: the stored value is handed out as a V
remove_with_name_unchecked(m, key, V) ==
    LET k == KeyString(key)
    IN  IF m[k] = None
        THEN [map |-> m, ret |-> None]
        ELSE [map |-> HashRemove(m, k).map, ret |-> Some(m[k][1].value)]

\* the comparison of type_id inverted
remove_with_name_inverted(m, key, V) ==
    LET k == KeyString(key)
    IN  IF m[k] = None
        THEN [map |-> m, ret |-> None]
        ELSE IF m[k][1].type_id # V
             THEN LET r == HashRemove(m, k)
                  IN  [map |-> r.map, ret |-> AndThenGetValue(r.old, V)]
             ELSE [map |-> m, ret |-> None]

\* the entry removed before its type_id is compared
remove_with_name_eager(m, key, V) ==
    LET k == KeyString(key)
        r == HashRemove(m, k)
    IN  [map |-> r.map, ret |-> AndThenGetValue(r.old, V)]

remove_with_name(m, key, V) ==
    LET k == KeyString(key)
    IN  IF m[k] = None
        THEN [map |-> m, ret |-> None]
        ELSE IF m[k][1].type_id = V
             THEN LET r == HashRemove(m, k)
                  IN  [map |-> r.map, ret |-> AndThenGetValue(r.old, V)]
             ELSE [map |-> m, ret |-> None]

remove_with_type(m, V) ==
    LET k == KeyId(V)
    IN  IF m[k] = None
        THEN [map |-> m, ret |-> None]
        ELSE IF m[k][1].type_id = V
             THEN LET r == HashRemove(m, k)
                  IN  [map |-> r.map, ret |-> AndThenGetValue(r.old, V)]
             ELSE [map |-> m, ret |-> None]

\* --------------------------------------------------------- components
Interfaces == {"Foo", "Bar", "FooDuplicate"}
Components == {"TestComponent", "BarImpl",
               "FooDuplicateImpl1", "FooDuplicateImpl2"}

\* C::Interface
InterfaceOf(C) ==
    CASE C = "TestComponent" -> "Foo"
      [] C = "BarImpl" -> "Bar"
      [] OTHER -> "FooDuplicate"

\* the fields of a component that are not #[inject], in declaration order
Fields(C) ==
    CASE C = "TestComponent" ->
            << [name |-> "var1", ty |-> "String"],
               [name |-> "var2", ty |-> "usize"],
               [name |-> "var3", ty |-> "Box<String>"] >>
      [] C = "BarImpl" -> << [name |-> "val", ty |-> "usize"] >>
      [] OTHER -> << >>

\* the interfaces of the #[inject] fields of a component
Injects(C) == IF C = "TestComponent" THEN << "Bar" >> ELSE << >>

\* ------------------------------------------- container::RegisteredType
RegisteredTypeNew(component) ==
    [component |-> component, parameters |-> ParameterMapNew]

with_named_parameter(rt, name, value) ==
    [rt EXCEPT !.parameters = insert_with_name(@, name, value).map]

with_typed_parameter(rt, value) ==
    [rt EXCEPT !.parameters = insert_with_type(@, value).map]

\* ------------------------------------------------------ container::Map
MapNew == [i \in Interfaces |-> None]

\* Map::insert::<RegisteredType<I>>: the new map and the evicted descriptor
MapInsert(m, I, rt) == [map |-> [m EXCEPT ![I] = Some(rt)], old |-> m[I]]

\* Map::get_mut::<RegisteredType<I>>
MapGetMut(m, I) == m[I]

\* ------------------------------------------- container::ContainerBuilder
\* ContainerBuilder::default
ContainerBuilderDefault == MapNew

\* the first registration of an interface is kept
register_type_keep_first(m, C) ==
    LET r == IF m[InterfaceOf(C)] = None
             THEN MapInsert(m, InterfaceOf(C), RegisteredTypeNew(C))
             ELSE [map |-> m, old |-> m[InterfaceOf(C)]]
    IN  [map |-> r.map,
         warned |-> IF r.old = None THEN None ELSE Some(r.old[1].component),
         handle |-> MapGetMut(r.map, InterfaceOf(C))]

\* the new descriptor takes over the parameters of the one it replaces
register_type_keep_params(m, C) ==
    LET old == m[InterfaceOf(C)]
        registered_type ==
            IF old = None THEN RegisteredTypeNew(C)
            ELSE [component |-> C, parameters |-> old[1].parameters]
        r == MapInsert(m, InterfaceOf(C), registered_type)
    IN  [map |-> r.map,
         warned |-> IF r.old = None THEN None ELSE Some(r.old[1].component),
         handle |-> MapGetMut(r.map, InterfaceOf(C))]

\* register_type::<C>: the new registry, the component the warning names
\* and the result of the get_mut the returned handle is unwrapped from
register_type(m, C) ==
    LET registered_type == RegisteredTypeNew(C)
        r == MapInsert(m, InterfaceOf(C), registered_type)
    IN  [map |-> r.map,
         warned |-> IF r.old = None THEN None ELSE Some(r.old[1].component),
         handle |-> MapGetMut(r.map, InterfaceOf(C))]

\* the container starts from a fresh registry
build_empty(m) == [ok |-> TRUE, container |-> MapNew]

\* the container registers a component for every interface left without
build_defaults(m) ==
    [ok |-> TRUE,
     container |-> [I \in Interfaces |->
                      IF m[I] # None THEN m[I]
                      ELSE Some(RegisteredTypeNew(
                               CHOOSE C \in Components : InterfaceOf(C) = I))]]

\* build: Ok(Container::new(self.map))
build(m) == [ok |-> TRUE, container |-> m]

\* ----------------------------------------------------- Component::build
\* The derived build of a component reads every field from the parameter
\* store, by name and then by type, with the removing readers.
RECURSIVE ReadFields(_, _)
ReadFields(params, fields) ==
    IF fields = << >>
    THEN [params |-> params, vals |-> << >>]
    ELSE LET f == Head(fields)
             byName == remove_with_name(params, f.name, f.ty)
             byType == remove_with_type(byName.map, f.ty)
             one == IF byName.ret # None THEN byName ELSE byType
             rest == ReadFields(one.map, Tail(fields))
         IN  [params |-> rest.params, vals |-> <<one.ret>> \o rest.vals]

\* --------------------------------------------------- Container::resolve
NotRegistered(I) ==
    [kind |-> "NotRegistered", iface |-> I, component |-> "",
     fields |-> << >>, deps |-> << >>]

RECURSIVE resolve(_, _)
RECURSIVE ResolveAll(_, _)
ResolveAll(cm, ifaces) ==
    IF ifaces = << >>
    THEN [map |-> cm, res |-> << >>]
    ELSE LET one == resolve(cm, Head(ifaces))
             rest == ResolveAll(one.map, Tail(ifaces))
         IN  [map |-> rest.map, res |-> <<one.res>> \o rest.res]

resolve(cm, I) ==
    IF cm[I] = None
    THEN [map |-> cm, res |-> NotRegistered(I)]
    ELSE LET rt == cm[I][1]
             rf == ReadFields(rt.parameters, Fields(rt.component))
             cm1 == [cm EXCEPT ![I] = Some([rt EXCEPT !.parameters = rf.params])]
             ds == ResolveAll(cm1, Injects(rt.component))
         IN  [map |-> ds.map,
              res |-> [kind |-> "Built", iface |-> I,
                       component |-> rt.component,
                       fields |-> rf.vals, deps |-> ds.res]]

\* ------------------------------------------------------------------ state
VARIABLES
    map,       \* the ParameterMap of the unit test
    last,      \* the last ParameterMap call: its arguments and return value
    ins,       \* per name, the value of the latest insert_with_name
    builder,   \* Some(the registry of the ContainerBuilder), None once built
    container, \* Some(the registry of the Container), None before build
    handle,    \* the interface of the descriptor register_type returned
    registered,\* per interface, the components register_type was called
               \* with, in call order
    out,       \* the last builder or container call and what it returned
    nregs,     \* number of register_type calls
    nparams    \* number of with_named_parameter / with_typed_parameter calls

vars == <<map, last, ins, builder, container, handle, registered, out,
          nregs, nparams>>
mapVars == <<map, last, ins>>
diVars == <<builder, container, handle, registered, out, nregs, nparams>>

NoCall == [op |-> "none", key |-> "", ty |-> "", val |-> None,
           ret |-> None, had |-> None, follows |-> "no"]

\* whether the call follows an insert_with_name of the same name, and
\* whether that insert evicted another value
Follows(key) ==
    IF last.op = "insert_with_name" /\ last.key = key
    THEN IF last.had # None /\ Some(last.had[1].value) # last.val
         THEN "overwrite" ELSE "insert"
    ELSE "no"

NoOut == [op |-> "none", iface |-> "", component |-> "", warned |-> None,
          ret |-> None, res |-> None, before |-> None]

Init ==
    /\ map = ParameterMapNew
    /\ last = NoCall
    /\ ins = [n \in FieldNames |-> None]
    /\ builder = Some(ContainerBuilderDefault)
    /\ container = None
    /\ handle = None
    /\ registered = [i \in Interfaces |-> << >>]
    /\ out = NoOut
    /\ nregs = 0
    /\ nparams = 0

\* ------------------------------------------- the ParameterMap unit test
InsertWithName(key, value) ==
    LET r == insert_with_name(map, key, value)
    IN  /\ map' = r.map
        /\ last' = [op |-> "insert_with_name", key |-> key,
                    ty |-> TypeIdOf(value), val |-> Some(value),
                    ret |-> r.ret, had |-> map[KeyString(key)],
                    follows |-> Follows(key)]
        /\ ins' = [ins EXCEPT ![key] = Some(value)]
        /\ UNCHANGED diVars

InsertWithType(value) ==
    LET r == insert_with_type(map, value)
    IN  /\ map' = r.map
        /\ last' = [op |-> "insert_with_type", key |-> "",
                    ty |-> TypeIdOf(value), val |-> Some(value),
                    ret |-> r.ret, had |-> map[KeyId(TypeIdOf(value))],
                    follows |-> "no"]
        /\ UNCHANGED ins
        /\ UNCHANGED diVars

RemoveWithName(key, V) ==
    LET r == remove_with_name(map, key, V)
    IN  /\ map' = r.map
        /\ last' = [op |-> "remove_with_name", key |-> key, ty |-> V,
                    val |-> None, ret |-> r.ret,
                    had |-> map[KeyString(key)],
                    follows |-> Follows(key)]
        /\ UNCHANGED ins
        /\ UNCHANGED diVars

RemoveWithType(V) ==
    LET r == remove_with_type(map, V)
    IN  /\ map' = r.map
        /\ last' = [op |-> "remove_with_type", key |-> "", ty |-> V,
                    val |-> None, ret |-> r.ret, had |-> map[KeyId(V)],
                    follows |-> "no"]
        /\ UNCHANGED ins
        /\ UNCHANGED diVars

NextMap ==
    \/ \E key \in Names, value \in Values : InsertWithName(key, value)
    \/ \E value \in Values : InsertWithType(value)
    \/ \E key \in Names, V \in ReqTypes : RemoveWithName(key, V)
    \/ \E V \in ReqTypes : RemoveWithType(V)

SpecMap == Init /\ [][NextMap]_vars

\* ------------------------------------- the builder and the container
RegisterType(C) ==
    /\ builder # None
    /\ nregs < MaxRegs
    /\ LET r == register_type(builder[1], C)
       IN  /\ builder' = Some(r.map)
           /\ handle' = Some(InterfaceOf(C))
           /\ out' = [NoOut EXCEPT !.op = IF r.handle = None
                                          THEN "register_type panicked"
                                          ELSE "register_type",
                                   !.iface = InterfaceOf(C),
                                   !.component = C,
                                   !.warned = r.warned,
                                   !.ret = r.handle,
                                   !.before = builder]
    /\ registered' = [registered EXCEPT ![InterfaceOf(C)] = Append(@, C)]
    /\ nregs' = nregs + 1
    /\ UNCHANGED <<container, nparams>>
    /\ UNCHANGED mapVars

WithNamedParameter(name, value) ==
    /\ builder # None
    /\ handle # None
    /\ nparams < MaxParams
    /\ LET I == handle[1]
           rt == with_named_parameter(builder[1][I][1], name, value)
       IN  /\ builder' = Some([builder[1] EXCEPT ![I] = Some(rt)])
           /\ out' = [NoOut EXCEPT !.op = "with_named_parameter",
                                   !.iface = I,
                                   !.component = rt.component,
                                   !.ret = Some(rt),
                                   !.before = builder]
    /\ nparams' = nparams + 1
    /\ UNCHANGED <<container, handle, registered, nregs>>
    /\ UNCHANGED mapVars

WithTypedParameter(value) ==
    /\ builder # None
    /\ handle # None
    /\ nparams < MaxParams
    /\ LET I == handle[1]
           rt == with_typed_parameter(builder[1][I][1], value)
       IN  /\ builder' = Some([builder[1] EXCEPT ![I] = Some(rt)])
           /\ out' = [NoOut EXCEPT !.op = "with_typed_parameter",
                                   !.iface = I,
                                   !.component = rt.component,
                                   !.ret = Some(rt),
                                   !.before = builder]
    /\ nparams' = nparams + 1
    /\ UNCHANGED <<container, handle, registered, nregs>>
    /\ UNCHANGED mapVars

Build ==
    /\ builder # None
    /\ LET r == build(builder[1])
       IN  /\ container' = Some(r.container)
           /\ out' = [NoOut EXCEPT !.op = IF r.ok THEN "build" ELSE "build failed",
                                   !.before = builder]
    /\ builder' = None
    /\ handle' = None
    /\ UNCHANGED <<registered, nregs, nparams>>
    /\ UNCHANGED mapVars

Resolve(I) ==
    /\ container # None
    /\ LET r == resolve(container[1], I)
       IN  /\ container' = Some(r.map)
           /\ out' = [NoOut EXCEPT !.op = "resolve",
                                   !.iface = I,
                                   !.res = Some(r.res),
                                   !.before = container]
    /\ UNCHANGED <<builder, handle, registered, nregs, nparams>>
    /\ UNCHANGED mapVars

Next ==
    \/ \E C \in Components : RegisterType(C)
    \/ \E name \in Names, value \in Values : WithNamedParameter(name, value)
    \/ \E value \in Values : WithTypedParameter(value)
    \/ Build
    \/ \E I \in Interfaces : Resolve(I)

Spec == Init /\ [][Next]_vars

\* ================================================================ claims
Last(seq) == seq[Len(seq)]

\* the registry of the builder, or of the container once built
Registry == IF builder # None THEN builder[1] ELSE container[1]

\* C1: last registration wins: the registry holds a descriptor for exactly
\* the interfaces register_type was called for, it is the descriptor of the
\* component of the most recent call for that interface, and resolving the
\* interface after build() runs that component's builder.
TheoremC1 ==
    /\ \A I \in Interfaces :
          IF registered[I] = << >>
          THEN Registry[I] = None
          ELSE /\ Registry[I] # None
               /\ Registry[I][1].component = Last(registered[I])
    /\ (out.op = "resolve" /\ registered[out.iface] # << >>) =>
          /\ out.res[1].kind = "Built"
          /\ out.res[1].component = Last(registered[out.iface])

WitnessC1 ==
    /\ out.op = "resolve"
    /\ out.iface = "FooDuplicate"
    /\ registered["FooDuplicate"] = <<"FooDuplicateImpl1", "FooDuplicateImpl2">>
    /\ out.res[1].component = "FooDuplicateImpl2"

\* C2: resolve::<I>() returns the "not registered" error naming I exactly
\* when no register_type call registered I before build(); no other failure
\* appears in a result, also not for an injected dependency.
TheoremC2 ==
    out.op = "resolve" =>
        LET r == out.res[1]
        IN  /\ r.kind \in {"Built", "NotRegistered"}
            /\ (r.kind = "NotRegistered") <=> (registered[out.iface] = << >>)
            /\ r.kind = "NotRegistered" => r = NotRegistered(out.iface)
            /\ \A i \in 1..Len(r.deps) :
                  /\ r.deps[i].kind \in {"Built", "NotRegistered"}
                  /\ (r.deps[i].kind = "NotRegistered")
                        <=> (registered[r.deps[i].iface] = << >>)

WitnessC2 ==
    /\ out.op = "resolve"
    /\ registered[out.iface] = << >>
    /\ out.res[1] = NotRegistered(out.iface)
    /\ \E I \in Interfaces : registered[I] # << >>

\* C3: remove_with_name::<V>(k) and remove_with_type::<V>() return a value
\* only if the entry under the key has type identity exactly V, and then
\* that entry's value; they return None when the key is absent or holds an
\* entry of another type.
TheoremC3 ==
    last.op \in {"remove_with_name", "remove_with_type"} =>
        /\ last.ret # None =>
              /\ last.had # None
              /\ last.had[1].type_id = last.ty
              /\ TypeIdOf(last.ret[1]) = last.ty
              /\ last.ret = Some(last.had[1].value)
        /\ (last.had = None \/ last.had[1].type_id # last.ty) =>
              last.ret = None

WitnessC3 ==
    /\ last.op = "remove_with_name"
    /\ last.had # None
    /\ last.had[1].type_id # last.ty
    /\ last.ret = None

\* C4 as claimed: insert_with_name(k, v) returns the value previously stored
\* under k whenever k was present, whatever its type, and None only when k
\* was not present.
ClaimC4 ==
    last.op = "insert_with_name" =>
        /\ last.had # None => last.ret = Some(last.had[1].value)
        /\ last.ret = None => last.had = None

\* C4 as amended: insert_with_name(k, v) stores v under k, and returns the
\* value previously stored under k exactly when k was present with a value
\* of the type of v; it returns None when k was not present or held a value
\* of another type.
TheoremC4 ==
    last.op = "insert_with_name" =>
        /\ map[KeyString(last.key)] = Some(ParameterNew(last.key, last.val[1]))
        /\ last.ret = IF last.had # None /\ last.had[1].type_id = last.ty
                      THEN Some(last.had[1].value)
                      ELSE None

WitnessC4 ==
    /\ last.op = "insert_with_name"
    /\ last.had # None
    /\ last.had[1].type_id # last.ty
    /\ last.ret = None

WitnessC4SameType ==
    /\ last.op = "insert_with_name"
    /\ last.had # None
    /\ last.had[1].type_id = last.ty
    /\ last.ret = Some(last.had[1].value)

\* C5: under a name only the value of the latest insert_with_name is
\* stored; a remove_with_name that returns a value returns that one, and
\* right after an insert that evicted another value it returns the new
\* value when typed as the new value and None otherwise.
TheoremC5 ==
    /\ \A n \in FieldNames :
          map[KeyString(n)] # None =>
              /\ ins[n] # None
              /\ map[KeyString(n)] = Some(ParameterNew(n, ins[n][1]))
    /\ last.op = "remove_with_name" =>
          /\ last.ret # None => last.ret = ins[last.key]
          /\ last.follows = "overwrite" =>
                last.ret = IF last.ty = TypeIdOf(ins[last.key][1])
                           THEN ins[last.key] ELSE None

WitnessC5 ==
    /\ last.op = "remove_with_name"
    /\ last.follows = "overwrite"
    /\ last.ret # None
    /\ last.ret = ins[last.key]

\* C6: insert_with_name(k, v) immediately followed by
\* remove_with_name::<V>(k), V the type of v, returns Some(v).
TheoremC6 ==
    [][(/\ last.op = "insert_with_name"
        /\ last'.op = "remove_with_name"
        /\ last'.key = last.key
        /\ last'.ty = last.ty) => last'.ret = last.val]_vars

WitnessC6 ==
    /\ last.op = "remove_with_name"
    /\ last.follows # "no"
    /\ last.ty = TypeIdOf(ins[last.key][1])
    /\ last.ret = ins[last.key]
    /\ \E k \in Keys : map[k] # None

\* C7 as claimed: a resolve of the interface the call before resolved
\* returns what that call returned.
ClaimC7 ==
    [][(/\ out.op = "resolve"
        /\ out'.op = "resolve"
        /\ out'.iface = out.iface) => out'.res = out.res]_vars

WitnessC8Empty ==
    /\ out.op = "build"
    /\ container = Some(MapNew)

\* C9: register_type::<C>() never panics; the handle it returns is the
\* descriptor stored for C's interface, names C and has an empty parameter
\* store; a parameter set changes the descriptor of the handle only.
TheoremC9 ==
    /\ out.op # "register_type panicked"
    /\ out.op = "register_type" =>
          /\ out.ret = Some(RegisteredTypeNew(out.component))
          /\ builder[1][out.iface] = out.ret
          /\ handle = Some(out.iface)
    /\ out.op \in {"with_named_parameter", "with_typed_parameter"} =>
          /\ handle = Some(out.iface)
          /\ builder[1][out.iface] = out.ret
          /\ out.ret[1].component = Last(registered[out.iface])
          /\ \A J \in Interfaces \ {out.iface} :
                builder[1][J] = out.before[1][J]

WitnessC9 ==
    /\ out.op = "register_type"
    /\ out.before[1][out.iface] # None
    /\ out.before[1][out.iface][1].parameters # ParameterMapNew
    /\ out.before[1][out.iface][1].component # out.component

\* C10: a remove_with_name or remove_with_type that returns None leaves the
\* store as it was, so removing the same name with the type of its entry
\* still returns the stored value.
TheoremC10 ==
    [][(/\ last'.op \in {"remove_with_name", "remove_with_type"}
        /\ last'.ret = None) =>
          /\ map' = map
          /\ (last'.op = "remove_with_name" /\ last'.had # None) =>
                remove_with_name(map', last'.key, last'.had[1].type_id).ret
                    = Some(last'.had[1].value)]_vars

WitnessC10 ==
    /\ last.op = "remove_with_name"
    /\ last.ret = None
    /\ last.had # None
    /\ map[KeyString(last.key)] = last.had
====
